---- MODULE Spec2Model ----
(***************************************************************************)
(* Model of builder/osc/common/omi_config.go: OMIConfig.Prepare,           *)
(* prepareRegions and validateKmsKey.                                      *)
(*                                                                         *)
(* Go strings that the code inspects character by character (the OMI name  *)
(* and the KMS key ids) are sequences of one-character strings. Region     *)
(* names are only compared for equality and are TLA+ strings. Error values *)
(* are the strings fmt.Errorf formats.                                     *)
(***************************************************************************)
EXTENDS FiniteSets, Integers, Sequences, TLC

VARIABLES
    c,              \* the *OMIConfig receiver
    accessConfig,   \* the *AccessConfig argument (nil or a RawRegion)
    pre,            \* the record as it was when the last call started
    errs,           \* the []error the last call returned
    lastOp,         \* the last call made on the record
    prevOp,         \* the call before it
    kmsKey,         \* the argument of validateKmsKey
    called,         \* validateKmsKey has returned
    valid           \* the value validateKmsKey returned

vars == <<c, accessConfig, pre, errs, lastOp, prevOp, kmsKey, called, valid>>

----------------------------------------------------------------------------
\* Bounds of the model.

\* longest omi_regions list of an input configuration
MaxRegions == 3

----------------------------------------------------------------------------
\* Characters and strings.

Lower == {"a", "b", "c", "d", "e", "f", "g", "h", "i", "j", "k", "l", "m",
          "n", "o", "p", "q", "r", "s", "t", "u", "v", "w", "x", "y", "z"}

Upper == {"A", "B", "C", "D", "E", "F", "G", "H", "I", "J", "K", "L", "M",
          "N", "O", "P", "Q", "R", "S", "T", "U", "V", "W", "X", "Y", "Z"}

Digits == {"0", "1", "2", "3", "4", "5", "6", "7", "8", "9"}

\* n copies of the character ch
Rep(ch, n) == [i \in 1..n |-> ch]

\* the Go string made of the characters of s (what %s prints)
RECURSIVE GoString(_)
GoString(s) == IF Len(s) = 0 THEN "" ELSE Head(s) \o GoString(Tail(s))

----------------------------------------------------------------------------
\* regexp: a regular expression is a sequence of items matched one after
\* the other. MatchString reports whether SOME substring matches, as Go's
\* Regexp.MatchString does; only ^ and $ tie a match to the ends of the text.

\* ^ : at the beginning of the text
Bol == [k |-> "bol", cs |-> {}, min |-> 0, max |-> 0, sub |-> <<>>]

\* $ : at the end of the text (no multi-line flag is set)
Eol == [k |-> "eol", cs |-> {}, min |-> 0, max |-> 0, sub |-> <<>>]

\* [cs]{n}
Times(chars, n) == [k |-> "set", cs |-> chars, min |-> n, max |-> n, sub |-> <<>>]

\* [cs]+
Plus(chars) == [k |-> "set", cs |-> chars, min |-> 1, max |-> -1, sub |-> <<>>]

\* (sub)?
Opt(re) == [k |-> "opt", cs |-> {}, min |-> 0, max |-> 1, sub |-> re]

\* the characters of s, literally
Lit(s) == [i \in 1..Len(s) |-> Times({s[i]}, 1)]

RECURSIVE Ends(_, _, _)
RECURSIVE Step(_, _, _)

\* the positions a match of item can end at when it starts at a position of P
Step(item, s, P) ==
    CASE item.k = "bol" -> P \cap {0}
      [] item.k = "eol" -> P \cap {Len(s)}
      [] item.k = "set" ->
            {q \in 0..Len(s) :
                \E p \in P :
                    /\ q - p >= item.min
                    /\ item.max = -1 \/ q - p <= item.max
                    /\ \A i \in (p + 1)..q : s[i] \in item.cs}
      [] item.k = "opt" -> P \cup Ends(item.sub, s, P)

\* the positions a match of re can end at when it starts at a position of P
Ends(re, s, P) ==
    IF Len(re) = 0 \/ P = {} THEN P ELSE Ends(Tail(re), s, Step(Head(re), s, P))

MatchString(re, s) == Ends(re, s, 0..Len(s)) # {}

----------------------------------------------------------------------------
\* validateKmsKey

\* number of digits of the account id in a KMS ARN
AccountDigits == 12

\* `[a-f0-9-]+$`
kmsKeyIdPattern == <<Plus({"a", "b", "c", "d", "e", "f", "-"} \cup Digits), Eol>>

\* `alias/[a-zA-Z0-9:/_-]+$`
aliasPattern ==
    Lit(<<"a", "l", "i", "a", "s", "/">>)
        \o <<Plus(Lower \cup Upper \cup Digits \cup {":", "/", "_", "-"}), Eol>>

\* `^arn:aws:kms:([a-z]{2}-(gov-)?[a-z]+-\d{1})?:(\d{12}):`
kmsArnStartPattern ==
    <<Bol>>
        \o Lit(<<"a", "r", "n", ":", "a", "w", "s", ":", "k", "m", "s", ":">>)
        \o <<Opt(<<Times(Lower, 2)>> \o Lit(<<"-">>)
                    \o <<Opt(Lit(<<"g", "o", "v", "-">>))>>
                    \o <<Plus(Lower)>> \o Lit(<<"-">>) \o <<Times(Digits, 1)>>)>>
        \o Lit(<<":">>) \o <<Times(Digits, AccountDigits)>> \o Lit(<<":">>)

\* fmt.Sprintf("^%s", kmsKeyIdPattern)
keyIdRegexp == <<Bol>> \o kmsKeyIdPattern

\* fmt.Sprintf("^%s", aliasPattern)
aliasRegexp == <<Bol>> \o aliasPattern

\* fmt.Sprintf("%skey/%s", kmsArnStartPattern, kmsKeyIdPattern)
arnKeyRegexp == kmsArnStartPattern \o Lit(<<"k", "e", "y", "/">>) \o kmsKeyIdPattern

\* fmt.Sprintf("%s%s", kmsArnStartPattern, aliasPattern)
arnAliasRegexp == kmsArnStartPattern \o aliasPattern

\* validateKmsKey with the "^%s" of its first two patterns forgotten
validateKmsKeyNoCaret(key) ==
    \/ MatchString(kmsKeyIdPattern, key)
    \/ MatchString(aliasPattern, key)
    \/ MatchString(arnKeyRegexp, key)
    \/ MatchString(arnAliasRegexp, key)

validateKmsKey(key) ==
    IF MatchString(keyIdRegexp, key) THEN TRUE
    ELSE IF MatchString(aliasRegexp, key) THEN TRUE
    ELSE IF MatchString(arnKeyRegexp, key) THEN TRUE
    ELSE IF MatchString(arnAliasRegexp, key) THEN TRUE
    ELSE FALSE

----------------------------------------------------------------------------
\* Keys validateKmsKey is applied to: every concatenation of one part of each
\* kind, so that each shape occurs whole, cut short, and inside a longer text.

Account == <<"1", "2", "3", "4", "5", "6", "7", "8", "9", "0", "1", "2">>

ArnText == <<"a", "r", "n", ":", "a", "w", "s", ":", "k", "m", "s", ":">>

LeadParts == {<<>>, <<"x">>}

RegionParts ==
    {<<>>,
     <<"u", "s", "-", "e", "a", "s", "t", "-", "1">>,
     <<"u", "s", "-", "g", "o", "v", "-", "w", "e", "s", "t", "-", "1">>,
     <<"U", "S", "-", "e", "a", "s", "t", "-", "1">>,
     <<"u", "s", "-", "e", "a", "s", "t", "-", "1", "2">>}

AccountParts == {Account, Tail(Account), Account \o <<"3">>}

ArnParts ==
    {<<>>} \cup {ArnText \o r \o <<":">> \o a \o <<":">> : r \in RegionParts, a \in AccountParts}

KindParts ==
    {<<>>,
     <<"k", "e", "y", "/">>,
     <<"a", "l", "i", "a", "s", "/">>,
     <<"A", "l", "i", "a", "s", "/">>}

BodyParts ==
    {<<>>,
     <<"1", "a", "-", "f">>,
     <<"m", "y", "-", "k", "e", "y">>,
     <<"m", "_", "K", ":", "/", "9">>,
     <<"g">>,
     <<"k", "!">>}

TrailParts == {<<>>, <<"!">>, <<"\n">>}

KmsInputs ==
    {l \o a \o k \o b \o t :
        l \in LeadParts, a \in ArnParts, k \in KindParts, b \in BodyParts, t \in TrailParts}

----------------------------------------------------------------------------
\* Input configurations.

\* omi_name bounds
MinNameLen == 3

MaxNameLen == 128

RegionNames == {"a", "b"}

\* omi_name: empty, good, needing cleaning
Names == {<<>>, <<"a", "b", "c">>, <<"a", "#", "c">>}

\* omi_name at the length bounds: too short, longest allowed, too long
BoundaryNames == {<<"a", "b">>, Rep("a", MaxNameLen), Rep("a", MaxNameLen + 1)}

\* KMS key ids: none, a well-formed one, a malformed one
KmsKeyIds == {<<>>, <<"a", "1", "-", "f">>, <<"k", "!">>}

\* values of region_kms_key_ids: none, a malformed one
RegionKeyValues == {<<>>, <<"k", "!">>}

RegionLists == UNION {[1..n -> RegionNames] : n \in 0..MaxRegions}

RegionKMSKeyIDs == UNION {[K -> RegionKeyValues] : K \in SUBSET RegionNames}

UserLists == {<<>>, <<"u1">>}

NilAccessConfig == [nil |-> TRUE, RawRegion |-> ""]

\* no access configuration, or one whose region is a region of the lists
\* (the lists and maps are closed under renaming "a" and "b")
AccessConfigs == {NilAccessConfig, [nil |-> FALSE, RawRegion |-> "b"]}

ConfigsOf(names, regionLists, regionKeys) ==
    [OMIName : names,
     OMIDescription : {"d"},
     OMIUsers : UserLists,
     OMIGroups : {<<"g1">>},
     OMIRegions : regionLists,
     OMIEncryptBootVolume : BOOLEAN,
     OMIKmsKeyId : KmsKeyIds,
     OMIRegionKMSKeyIDs : regionKeys,
     SnapshotUsers : UserLists,
     SnapshotGroups : {<<"g2">>}]

\* every combination of the fields, and the names at the length bounds with
\* the shortest region lists
Configs ==
    ConfigsOf(Names, RegionLists, RegionKMSKeyIDs)
        \cup ConfigsOf(BoundaryNames, {rl \in RegionLists : Len(rl) <= 1},
                       {m \in RegionKMSKeyIDs : Cardinality(DOMAIN m) <= 1})

\* the orders a `for ... range m` can visit the keys K of a map in
Orders(K) ==
    {o \in [1..Cardinality(K) -> K] : \A i, j \in 1..Cardinality(K) : i # j => o[i] # o[j]}

----------------------------------------------------------------------------
\* The error values.

ErrNameMissing == "omi_name must be specified"

ErrKeyRegion(r) == "Region " \o r \o " is in region_kms_key_ids but not in omi_regions"

ErrRegionKey(r) == "Region " \o r \o " is in omi_regions but not in region_kms_key_ids"

ErrShareEncrypted == "Cannot share OMI with encrypted boot volume"

ErrKmsKey(key) == GoString(key) \o " is not a valid KMS Key Id."

ErrShareSnapshot == "Cannot share snapshot encrypted with default KMS key"

ErrNameLength == "omi_name must be between 3 and 128 characters long"

ErrNameChars == "OMIName should only contain alphanumeric characters ..."

----------------------------------------------------------------------------
\* Helpers.

\* stringInSlice stopping one entry before the end of the slice
stringInSliceShort(s, searchstr) == \E i \in 1..(Len(s) - 1) : s[i] = searchstr

stringInSlice(s, searchstr) == \E i \in 1..Len(s) : s[i] = searchstr

\* characters templateCleanOMIName keeps
CleanChars ==
    Lower \cup Upper \cup Digits \cup {"(", ")", "[", "]", " ", ".", "/", "-", "'", "@", "_"}

isCleanChar(ch) == ch \in CleanChars

templateCleanOMIName(s) == SelectSeq(s, isCleanChar)

----------------------------------------------------------------------------
\* prepareRegions

RECURSIVE prepareRegionsLoopSkip(_, _, _, _, _, _)

\* prepareRegionsLoop removing the origin region from the list in place while
\* ranging over it, so that the entry after a removed one is kept unexamined
prepareRegionsLoopSkip(cfg, ac, i, regionSet, regions, es) ==
    IF i > Len(cfg.OMIRegions) THEN [regions |-> regions, errs |-> es]
    ELSE
        LET region == cfg.OMIRegions[i]
            es2 == IF /\ Cardinality(DOMAIN cfg.OMIRegionKMSKeyIDs) > 0
                      /\ region \notin DOMAIN cfg.OMIRegionKMSKeyIDs
                   THEN Append(es, ErrRegionKey(region))
                   ELSE es
        IN  IF region \in regionSet
                THEN prepareRegionsLoopSkip(cfg, ac, i + 1, regionSet, regions, es)
            ELSE IF (~ac.nil) /\ region = ac.RawRegion
                THEN prepareRegionsLoopSkip(cfg, ac, i + 2, regionSet \cup {region},
                        IF i < Len(cfg.OMIRegions)
                            THEN Append(regions, cfg.OMIRegions[i + 1]) ELSE regions,
                        es2)
            ELSE prepareRegionsLoopSkip(cfg, ac, i + 1, regionSet \cup {region},
                                        Append(regions, region), es2)

RECURSIVE prepareRegionsLoopLate(_, _, _, _, _, _)

\* prepareRegionsLoop looking the region up in region_kms_key_ids only after
\* the origin region has been dropped
prepareRegionsLoopLate(cfg, ac, i, regionSet, regions, es) ==
    IF i > Len(cfg.OMIRegions) THEN [regions |-> regions, errs |-> es]
    ELSE
        LET region == cfg.OMIRegions[i]
            es2 == IF /\ Cardinality(DOMAIN cfg.OMIRegionKMSKeyIDs) > 0
                      /\ region \notin DOMAIN cfg.OMIRegionKMSKeyIDs
                   THEN Append(es, ErrRegionKey(region))
                   ELSE es
        IN  IF region \in regionSet
                THEN prepareRegionsLoopLate(cfg, ac, i + 1, regionSet, regions, es)
            ELSE IF (~ac.nil) /\ region = ac.RawRegion
                THEN prepareRegionsLoopLate(cfg, ac, i + 1, regionSet \cup {region}, regions, es)
            ELSE prepareRegionsLoopLate(cfg, ac, i + 1, regionSet \cup {region},
                                        Append(regions, region), es2)

RECURSIVE prepareRegionsLoop(_, _, _, _, _, _)

\* the loop over c.OMIRegions, from index i on
prepareRegionsLoop(cfg, ac, i, regionSet, regions, es) ==
    IF i > Len(cfg.OMIRegions) THEN [regions |-> regions, errs |-> es]
    ELSE
        LET region == cfg.OMIRegions[i]
            es2 == IF /\ Cardinality(DOMAIN cfg.OMIRegionKMSKeyIDs) > 0
                      /\ region \notin DOMAIN cfg.OMIRegionKMSKeyIDs
                   THEN Append(es, ErrRegionKey(region))
                   ELSE es
        IN  IF region \in regionSet
                THEN prepareRegionsLoop(cfg, ac, i + 1, regionSet, regions, es)
            ELSE IF (~ac.nil) /\ region = ac.RawRegion
                THEN prepareRegionsLoop(cfg, ac, i + 1, regionSet \cup {region}, regions, es2)
            ELSE prepareRegionsLoop(cfg, ac, i + 1, regionSet \cup {region},
                                    Append(regions, region), es2)

\* the record and the errors prepareRegions leaves
prepareRegions(cfg, ac) ==
    IF Len(cfg.OMIRegions) > 0
    THEN LET r == prepareRegionsLoop(cfg, ac, 1, {}, <<>>, <<>>)
         IN  [c |-> [cfg EXCEPT !.OMIRegions = r.regions], errs |-> r.errs]
    ELSE [c |-> cfg, errs |-> <<>>]

----------------------------------------------------------------------------
\* Prepare

RECURSIVE regionKeyErrsBreak(_, _, _)

\* regionKeyErrs leaving the loop at the first key missing from the list
regionKeyErrsBreak(cfg, o, i) ==
    IF i > Len(o) THEN <<>>
    ELSE IF ~stringInSlice(cfg.OMIRegions, o[i]) THEN <<ErrKeyRegion(o[i])>>
    ELSE regionKeyErrsBreak(cfg, o, i + 1)

RECURSIVE regionKeyErrs(_, _, _)

\* lines 52-58: the keys of region_kms_key_ids, visited in order o
regionKeyErrs(cfg, o, i) ==
    IF i > Len(o) THEN <<>>
    ELSE (IF ~stringInSlice(cfg.OMIRegions, o[i]) THEN <<ErrKeyRegion(o[i])>> ELSE <<>>)
            \o regionKeyErrs(cfg, o, i + 1)

RECURSIVE emptyRegionKeys(_, _, _, _)

\* one copy of x for each entry of region_kms_key_ids, visited in order o,
\* whose value is empty
emptyRegionKeys(cfg, o, i, x) ==
    IF i > Len(o) THEN <<>>
    ELSE (IF Len(cfg.OMIRegionKMSKeyIDs[o[i]]) = 0 THEN <<x>> ELSE <<>>)
            \o emptyRegionKeys(cfg, o, i + 1, x)

RECURSIVE regionKeyValues(_, _, _)

\* the non-empty values of region_kms_key_ids, visited in order o
regionKeyValues(cfg, o, i) ==
    IF i > Len(o) THEN <<>>
    ELSE (IF Len(cfg.OMIRegionKMSKeyIDs[o[i]]) > 0 THEN <<cfg.OMIRegionKMSKeyIDs[o[i]]>> ELSE <<>>)
            \o regionKeyValues(cfg, o, i + 1)

\* kmsKeys with the non-empty values of region_kms_key_ids validated too
kmsKeysWithValues(cfg, o) ==
    (IF Len(cfg.OMIKmsKeyId) > 0 THEN <<cfg.OMIKmsKeyId>> ELSE <<>>)
        \o emptyRegionKeys(cfg, o, 1, cfg.OMIKmsKeyId) \o regionKeyValues(cfg, o, 1)

\* lines 66-76: the keys to validate
kmsKeys(cfg, o) ==
    (IF Len(cfg.OMIKmsKeyId) > 0 THEN <<cfg.OMIKmsKeyId>> ELSE <<>>)
        \o emptyRegionKeys(cfg, o, 1, cfg.OMIKmsKeyId)

RECURSIVE kmsKeyErrs(_)

\* lines 77-81
kmsKeyErrs(keys) ==
    IF Len(keys) = 0 THEN <<>>
    ELSE (IF ~validateKmsKey(Head(keys)) THEN <<ErrKmsKey(Head(keys))>> ELSE <<>>)
            \o kmsKeyErrs(Tail(keys))

\* snapshotErrs with the loop over region_kms_key_ids inside the test of the
\* default key id and the encryption flag
snapshotErrsNested(cfg, o) ==
    IF Len(cfg.SnapshotUsers) > 0 /\ Len(cfg.OMIKmsKeyId) = 0 /\ cfg.OMIEncryptBootVolume
    THEN <<ErrShareSnapshot>> \o emptyRegionKeys(cfg, o, 1, ErrShareSnapshot)
    ELSE <<>>

\* lines 83-94
snapshotErrs(cfg, o) ==
    IF Len(cfg.SnapshotUsers) > 0
    THEN (IF Len(cfg.OMIKmsKeyId) = 0 /\ cfg.OMIEncryptBootVolume
            THEN <<ErrShareSnapshot>> ELSE <<>>)
            \o emptyRegionKeys(cfg, o, 1, ErrShareSnapshot)
    ELSE <<>>

\* lines 96-106
nameErrs(cfg) ==
    (IF Len(cfg.OMIName) < MinNameLen \/ Len(cfg.OMIName) > MaxNameLen
        THEN <<ErrNameLength>> ELSE <<>>)
        \o (IF cfg.OMIName # templateCleanOMIName(cfg.OMIName) THEN <<ErrNameChars>> ELSE <<>>)

\* Prepare returning as soon as the name is found missing
PrepareEarlyReturn(cfg, ac, o1, o2, o3) ==
    IF Len(cfg.OMIName) = 0 THEN [c |-> cfg, errs |-> <<ErrNameMissing>>]
    ELSE
        LET pr == prepareRegions(cfg, ac)
            c2 == pr.c
        IN  [c |-> c2,
             errs |-> regionKeyErrs(cfg, o1, 1) \o pr.errs
                        \o (IF Len(c2.OMIUsers) > 0 /\ c2.OMIEncryptBootVolume
                                THEN <<ErrShareEncrypted>> ELSE <<>>)
                        \o kmsKeyErrs(kmsKeys(c2, o2)) \o snapshotErrs(c2, o3) \o nameErrs(c2)]

\* Prepare storing the default key id in the empty-valued entries of
\* region_kms_key_ids
PrepareFillsKeys(cfg, ac, o1, o2, o3) ==
    LET pr == prepareRegions(cfg, ac)
        c2 == pr.c
        m == c2.OMIRegionKMSKeyIDs
    IN  [c |-> [c2 EXCEPT !.OMIRegionKMSKeyIDs =
                    [r \in DOMAIN m |-> IF Len(m[r]) = 0 THEN c2.OMIKmsKeyId ELSE m[r]]],
         errs |-> (IF Len(cfg.OMIName) = 0 THEN <<ErrNameMissing>> ELSE <<>>)
                    \o regionKeyErrs(cfg, o1, 1) \o pr.errs
                    \o (IF Len(c2.OMIUsers) > 0 /\ c2.OMIEncryptBootVolume
                            THEN <<ErrShareEncrypted>> ELSE <<>>)
                    \o kmsKeyErrs(kmsKeys(c2, o2)) \o snapshotErrs(c2, o3) \o nameErrs(c2)]

\* the record and the errors Prepare leaves when its three loops over
\* region_kms_key_ids visit the keys in the orders o1, o2 and o3
Prepare(cfg, ac, o1, o2, o3) ==
    LET errs1 == IF Len(cfg.OMIName) = 0 THEN <<ErrNameMissing>> ELSE <<>>
        errs2 == errs1 \o regionKeyErrs(cfg, o1, 1)
        pr == prepareRegions(cfg, ac)
        c2 == pr.c
        errs3 == errs2 \o pr.errs
        errs4 == errs3 \o (IF Len(c2.OMIUsers) > 0 /\ c2.OMIEncryptBootVolume
                            THEN <<ErrShareEncrypted>> ELSE <<>>)
        errs5 == errs4 \o kmsKeyErrs(kmsKeys(c2, o2))
        errs6 == errs5 \o snapshotErrs(c2, o3)
        errs7 == errs6 \o nameErrs(c2)
    IN  [c |-> c2, errs |-> errs7]

----------------------------------------------------------------------------
\* The calls.

NoKey == <<>>

Init ==
    /\ c \in Configs
    /\ accessConfig \in AccessConfigs
    /\ pre = c
    /\ errs = <<>>
    /\ lastOp = "none"
    /\ prevOp = "none"
    /\ kmsKey = NoKey
    /\ called = FALSE
    /\ valid = FALSE

\* c.Prepare(accessConfig, ctx)
PrepareCall ==
    /\ \E o1, o2, o3 \in Orders(DOMAIN c.OMIRegionKMSKeyIDs) :
            LET r == Prepare(c, accessConfig, o1, o2, o3)
            IN  /\ c' = r.c
                /\ errs' = r.errs
    /\ pre' = c
    /\ lastOp' = "Prepare"
    /\ prevOp' = lastOp
    /\ UNCHANGED <<accessConfig, kmsKey, called, valid>>

\* c.prepareRegions(accessConfig)
prepareRegionsCall ==
    /\ LET r == prepareRegions(c, accessConfig)
       IN  /\ c' = r.c
           /\ errs' = r.errs
    /\ pre' = c
    /\ lastOp' = "prepareRegions"
    /\ prevOp' = lastOp
    /\ UNCHANGED <<accessConfig, kmsKey, called, valid>>

Next == PrepareCall \/ prepareRegionsCall

Spec == Init /\ [][Next]_vars

----------------------------------------------------------------------------
\* validateKmsKey on its own.

DefaultConfig ==
    [OMIName |-> <<"a", "b", "c">>, OMIDescription |-> "d", OMIUsers |-> <<>>,
     OMIGroups |-> <<"g1">>, OMIRegions |-> <<>>, OMIEncryptBootVolume |-> FALSE,
     OMIKmsKeyId |-> <<>>, OMIRegionKMSKeyIDs |-> <<>>, SnapshotUsers |-> <<>>,
     SnapshotGroups |-> <<"g2">>]

InitKms ==
    /\ c = DefaultConfig
    /\ accessConfig = NilAccessConfig
    /\ pre = c
    /\ errs = <<>>
    /\ lastOp = "none"
    /\ prevOp = "none"
    /\ kmsKey \in KmsInputs
    /\ called = FALSE
    /\ valid = FALSE

\* valid := validateKmsKey(kmsKey)
validateKmsKeyCall ==
    /\ ~called
    /\ called' = TRUE
    /\ valid' = validateKmsKey(kmsKey)
    /\ UNCHANGED <<c, accessConfig, pre, errs, lastOp, prevOp, kmsKey>>

NextKms == validateKmsKeyCall

SpecKms == InitKms /\ [][NextKms]_vars

----------------------------------------------------------------------------
\* Vocabulary of the properties.

Range(s) == {s[i] : i \in 1..Len(s)}

\* how many times the error m occurs in the list es
Count(es, m) == Cardinality({i \in 1..Len(es) : es[i] = m})

\* the entries of s at the indices keep holds of, in order
AtIndices(s, keep(_)) ==
    LET idx == SelectSeq([i \in 1..Len(s) |-> i], keep)
    IN  [j \in 1..Len(idx) |-> s[idx[j]]]

\* index of the first occurrence of x in s
FirstIndex(s, x) == CHOOSE i \in 1..Len(s) : s[i] = x /\ \A j \in 1..(i - 1) : s[j] # x

\* the number of entries of region_kms_key_ids whose value is empty
EmptyValued(cfg) ==
    Cardinality({r \in DOMAIN cfg.OMIRegionKMSKeyIDs : cfg.OMIRegionKMSKeyIDs[r] = <<>>})

KeyRegionErrs == {ErrKeyRegion(r) : r \in RegionNames}

RegionKeyErrs == {ErrRegionKey(r) : r \in RegionNames}

KmsKeyErrs == {ErrKmsKey(k) : k \in KmsKeyIds \cup RegionKeyValues}

----------------------------------------------------------------------------
\* C1: after Prepare, and after prepareRegions alone, the regions list is the
\* list the call started with, without the occurrences after the first of
\* each name and, when there is an access configuration, without its region:
\* no duplicates, no origin region, the other names all kept, in the order of
\* their first occurrences; an empty list stays empty.
C1_RegionsReconciled ==
    lastOp # "none" =>
        LET in == pre.OMIRegions
            out == c.OMIRegions
            origin == IF accessConfig.nil THEN {} ELSE {accessConfig.RawRegion}
        IN  /\ \A i, j \in 1..Len(out) : i # j => out[i] # out[j]
            /\ Range(out) = Range(in) \ origin
            /\ \A i, j \in 1..Len(out) :
                    i < j => FirstIndex(in, out[i]) < FirstIndex(in, out[j])
            /\ Len(in) = 0 => Len(out) = 0

\* a duplicated name and the origin region have been removed by Prepare
C1_Witness ==
    /\ lastOp = "Prepare"
    /\ pre.OMIRegions = <<"a", "b", "a">>
    /\ ~accessConfig.nil
    /\ c.OMIRegions = <<"a">>

----------------------------------------------------------------------------
\* C2: the membership check runs both ways against the regions list Prepare
\* started with: with a non-empty region_kms_key_ids there is exactly one
\* "in region_kms_key_ids but not in omi_regions" error for each key missing
\* from that list, and exactly one "in omi_regions but not in
\* region_kms_key_ids" error for each distinct region of that list missing
\* from the keys (the origin region and duplicated regions included); so
\* there is no membership error iff the keys are the regions of the list.
\* With an empty region_kms_key_ids there is no membership error.
C2_Membership ==
    lastOp = "Prepare" =>
        LET K == DOMAIN pre.OMIRegionKMSKeyIDs
            R == Range(pre.OMIRegions)
            none == \A i \in 1..Len(errs) : errs[i] \notin KeyRegionErrs \cup RegionKeyErrs
        IN  /\ \A r \in RegionNames :
                    /\ Count(errs, ErrKeyRegion(r)) = IF r \in K \ R THEN 1 ELSE 0
                    /\ Count(errs, ErrRegionKey(r)) = IF K # {} /\ r \in R \ K THEN 1 ELSE 0
            /\ K # {} => (none <=> K = R)
            /\ K = {} => none

\* the origin region, listed twice and not a key, is reported once, and the
\* key missing from the list is reported once
C2_Witness ==
    /\ lastOp = "Prepare"
    /\ pre.OMIRegions = <<"b", "b">>
    /\ ~accessConfig.nil
    /\ DOMAIN pre.OMIRegionKMSKeyIDs = {"a"}
    /\ Count(errs, ErrRegionKey("b")) = 1
    /\ Count(errs, ErrKeyRegion("a")) = 1

----------------------------------------------------------------------------
\* The shapes of a KMS key id.

KeyIdChars == {"a", "b", "c", "d", "e", "f", "-"} \cup Digits

AliasChars == Lower \cup Upper \cup Digits \cup {":", "/", "_", "-"}

AliasText == <<"a", "l", "i", "a", "s", "/">>

KeyText == <<"k", "e", "y", "/">>

GovText == <<"g", "o", "v", "-">>

\* s is t followed by a text that satisfies rest
StartsWith(s, t, rest(_)) ==
    /\ Len(s) >= Len(t)
    /\ SubSeq(s, 1, Len(t)) = t
    /\ rest(SubSeq(s, Len(t) + 1, Len(s)))

AllIn(s, chars) == \A i \in 1..Len(s) : s[i] \in chars

\* shape 1: one or more characters of [a-f0-9-]
IsKeyId(s) == Len(s) >= 1 /\ AllIn(s, KeyIdChars)

\* shape 2: alias/ and one or more characters of [a-zA-Z0-9:/_-]
IsAlias(s) == StartsWith(s, AliasText, LAMBDA b : Len(b) >= 1 /\ AllIn(b, AliasChars))

IsWord(s) == Len(s) >= 1 /\ AllIn(s, Lower)

\* two letters, a dash, an optional gov-, a word, a dash, a digit
IsRegion(r) ==
    /\ Len(r) >= 6
    /\ r[1] \in Lower /\ r[2] \in Lower /\ r[3] = "-"
    /\ r[Len(r) - 1] = "-" /\ r[Len(r)] \in Digits
    /\ LET w == SubSeq(r, 4, Len(r) - 2)
       IN  IsWord(w) \/ StartsWith(w, GovText, IsWord)

\* arn:aws:kms: + optional region + : + 12 digits + :
IsArnStart(p) ==
    StartsWith(p, ArnText,
        LAMBDA q :
            /\ Len(q) >= AccountDigits + 2
            /\ q[Len(q)] = ":"
            /\ q[Len(q) - AccountDigits - 1] = ":"
            /\ AllIn(SubSeq(q, Len(q) - AccountDigits, Len(q) - 1), Digits)
            /\ LET r == SubSeq(q, 1, Len(q) - AccountDigits - 2)
               IN  Len(r) = 0 \/ IsRegion(r))

\* shapes 3 and 4: the ARN prefix, then key/ and shape 1, or shape 2
IsArn(s) ==
    \E n \in 0..Len(s) :
        /\ IsArnStart(SubSeq(s, 1, n))
        /\ LET t == SubSeq(s, n + 1, Len(s))
           IN  StartsWith(t, KeyText, IsKeyId) \/ IsAlias(t)

HasKmsShape(s) == IsKeyId(s) \/ IsAlias(s) \/ IsArn(s)

----------------------------------------------------------------------------
\* C7: validateKmsKey returns true iff the whole string has one of the four
\* shapes; it returns false for the empty string and for a string that only
\* holds a shape as a proper part.
C7_KmsKeyShapes ==
    called => /\ valid <=> HasKmsShape(kmsKey)
              /\ Len(kmsKey) = 0 => ~valid

\* a well-formed alias after one more character has been rejected
C7_Witness ==
    /\ called
    /\ ~valid
    /\ kmsKey = <<"x">> \o AliasText \o <<"m", "y", "-", "k", "e", "y">>

\* a full ARN naming a key in a gov region has been accepted
C7_WitnessArn ==
    /\ called
    /\ valid
    /\ kmsKey = ArnText \o <<"u", "s", "-", "g", "o", "v", "-", "w", "e", "s", "t", "-", "1">>
                    \o <<":">> \o Account \o <<":">> \o KeyText \o <<"1", "a", "-", "f">>

----------------------------------------------------------------------------
\* The errors each check of Prepare produces on its own, for a record cfg.

\* 1: the name is not empty
Check1(cfg) == IF cfg.OMIName = <<>> THEN <<ErrNameMissing>> ELSE <<>>

\* 2: every key of region_kms_key_ids is a region of the list (keys taken in
\* the order o)
Check2(cfg, o) ==
    LET missing == SelectSeq(o, LAMBDA r : r \notin Range(cfg.OMIRegions))
    IN  [i \in 1..Len(missing) |-> ErrKeyRegion(missing[i])]

\* 3: region reconciliation: every region of the list, at its first
\* occurrence, is a key of a non-empty region_kms_key_ids
Check3(cfg) ==
    LET rl == cfg.OMIRegions
        K == DOMAIN cfg.OMIRegionKMSKeyIDs
        bad == AtIndices(rl, LAMBDA i : /\ K # {}
                                        /\ rl[i] \notin K
                                        /\ \A j \in 1..(i - 1) : rl[j] # rl[i])
    IN  [i \in 1..Len(bad) |-> ErrRegionKey(bad[i])]

\* 4: no users together with an encrypted boot volume
Check4(cfg) ==
    IF cfg.OMIUsers # <<>> /\ cfg.OMIEncryptBootVolume THEN <<ErrShareEncrypted>> ELSE <<>>

\* 5: the KMS key shapes: the default key, once for itself when it is not
\* empty and once for every empty-valued entry of region_kms_key_ids
Check5(cfg) ==
    IF HasKmsShape(cfg.OMIKmsKeyId) THEN <<>>
    ELSE Rep(ErrKmsKey(cfg.OMIKmsKeyId),
             (IF cfg.OMIKmsKeyId # <<>> THEN 1 ELSE 0) + EmptyValued(cfg))

\* 6: snapshot sharing
Check6(cfg) ==
    IF cfg.SnapshotUsers = <<>> THEN <<>>
    ELSE Rep(ErrShareSnapshot,
             (IF cfg.OMIKmsKeyId = <<>> /\ cfg.OMIEncryptBootVolume THEN 1 ELSE 0)
                + EmptyValued(cfg))

\* 7: the name length
Check7(cfg) ==
    IF Len(cfg.OMIName) \in MinNameLen..MaxNameLen THEN <<>> ELSE <<ErrNameLength>>

\* 8: the name needs no cleaning
Check8(cfg) ==
    IF \A i \in 1..Len(cfg.OMIName) : cfg.OMIName[i] \in CleanChars
    THEN <<>> ELSE <<ErrNameChars>>

AllChecks(cfg, o) ==
    Check1(cfg) \o Check2(cfg, o) \o Check3(cfg) \o Check4(cfg)
        \o Check5(cfg) \o Check6(cfg) \o Check7(cfg) \o Check8(cfg)

----------------------------------------------------------------------------
\* C3: Prepare never stops early: the list it returns is the concatenation,
\* in the order of the checks 1 to 8, of the errors each check produces on
\* its own for the record Prepare started with (the keys of check 2 taken in
\* some order), whether or not an earlier check failed; so it is empty iff
\* every check produces no error.
C3_AllChecksRun ==
    lastOp = "Prepare" =>
        \E o \in Orders(DOMAIN pre.OMIRegionKMSKeyIDs) : errs = AllChecks(pre, o)

\* an empty name has given the error of check 1 and the one of check 7, with
\* errors of the checks 2 to 6 in between
C3_Witness ==
    /\ lastOp = "Prepare"
    /\ pre.OMIName = <<>>
    /\ Len(errs) >= 7
    /\ errs[1] = ErrNameMissing
    /\ errs[Len(errs)] = ErrNameLength
    /\ \E i \in 1..Len(errs) : errs[i] = ErrShareSnapshot
    /\ \E i \in 1..Len(errs) : errs[i] \in RegionKeyErrs

----------------------------------------------------------------------------
\* C4 as stated: for the same record and access configuration every run of
\* Prepare returns the same list of errors, in the same order, and leaves
\* the same record, whatever the order its loops visit region_kms_key_ids in.
C4_Deterministic ==
    lastOp = "Prepare" =>
        \A o1, o2, o3 \in Orders(DOMAIN pre.OMIRegionKMSKeyIDs) :
            Prepare(pre, accessConfig, o1, o2, o3) = [c |-> c, errs |-> errs]

\* C4 amended: for the same record and access configuration every run of
\* Prepare leaves the same record and returns the same errors the same
\* number of times, in lists that differ at most in the order of the
\* "in region_kms_key_ids but not in omi_regions" errors among themselves.
C4_DeterministicUpToKeyOrder ==
    lastOp = "Prepare" =>
        \A o1, o2, o3 \in Orders(DOMAIN pre.OMIRegionKMSKeyIDs) :
            LET r == Prepare(pre, accessConfig, o1, o2, o3)
            IN  /\ r.c = c
                /\ Len(r.errs) = Len(errs)
                /\ \A i \in 1..Len(errs) :
                        \/ r.errs[i] = errs[i]
                        \/ r.errs[i] \in KeyRegionErrs /\ errs[i] \in KeyRegionErrs
                /\ \A i \in 1..Len(errs) : Count(r.errs, errs[i]) = Count(errs, errs[i])

\* Prepare has reported two keys of region_kms_key_ids missing from the list
C4_Witness ==
    /\ lastOp = "Prepare"
    /\ Count(errs, ErrKeyRegion("a")) = 1
    /\ Count(errs, ErrKeyRegion("b")) = 1
    /\ Len(pre.OMIRegions) = 0

----------------------------------------------------------------------------
\* C9: the KMS shape check validates the default key id only: Prepare
\* returns no "is not a valid KMS Key Id" error when the default key id is
\* non-empty and well-formed, 1 + E when it is non-empty and malformed, and E,
\* each naming the empty string, when it is empty, E being the number of
\* empty-valued entries of region_kms_key_ids; non-empty values of
\* region_kms_key_ids are never validated.
C9_KmsErrorCount ==
    lastOp = "Prepare" =>
        LET n == Cardinality({i \in 1..Len(errs) : errs[i] \in KmsKeyErrs})
            key == pre.OMIKmsKeyId
            E == EmptyValued(pre)
        IN  /\ key # <<>> /\ HasKmsShape(key) => n = 0
            /\ key # <<>> /\ ~HasKmsShape(key) => n = 1 + E
            /\ key = <<>> => n = E /\ Count(errs, ErrKmsKey(<<>>)) = E

\* a well-formed default key beside a malformed non-empty region key and an
\* empty one: no error
C9_Witness ==
    /\ lastOp = "Prepare"
    /\ HasKmsShape(pre.OMIKmsKeyId)
    /\ DOMAIN pre.OMIRegionKMSKeyIDs = {"a", "b"}
    /\ pre.OMIRegionKMSKeyIDs["a"] = <<"k", "!">>
    /\ pre.OMIRegionKMSKeyIDs["b"] = <<>>
    /\ \A i \in 1..Len(errs) : errs[i] \notin KmsKeyErrs

----------------------------------------------------------------------------
\* C10: Prepare returns no "Cannot share snapshot encrypted with default KMS
\* key" error when snapshot_users is empty, and otherwise one if the default
\* key id is empty and the boot volume is encrypted, plus one for every
\* empty-valued entry of region_kms_key_ids, whatever the default key id and
\* the encryption flag are.
C10_SnapshotErrorCount ==
    lastOp = "Prepare" =>
        Count(errs, ErrShareSnapshot) =
            IF pre.SnapshotUsers = <<>> THEN 0
            ELSE (IF pre.OMIKmsKeyId = <<>> /\ pre.OMIEncryptBootVolume THEN 1 ELSE 0)
                    + EmptyValued(pre)

\* two empty-valued entries have given two errors although the default key
\* id is set and the boot volume is not encrypted
C10_Witness ==
    /\ lastOp = "Prepare"
    /\ pre.SnapshotUsers # <<>>
    /\ pre.OMIKmsKeyId # <<>>
    /\ ~pre.OMIEncryptBootVolume
    /\ EmptyValued(pre) = 2
    /\ Count(errs, ErrShareSnapshot) = 2

----------------------------------------------------------------------------
\* every error of the list es2 is an error of the list es1
NoNewError(es1, es2) == Range(es2) \subseteq Range(es1)

\* C5: prepareRegions run again on the record a run of prepareRegions left
\* (same region_kms_key_ids, same access configuration) leaves the regions
\* list as it is and returns no error the run before did not return.
C5_ReconcileIdempotent ==
    [][(lastOp = "prepareRegions" /\ lastOp' = "prepareRegions")
            => /\ c'.OMIRegions = c.OMIRegions
               /\ NoNewError(errs, errs')]_vars

\* a second run of prepareRegions, on a list the first run had shortened,
\* has returned an error again
C5_Witness ==
    /\ lastOp = "prepareRegions"
    /\ prevOp = "prepareRegions"
    /\ ~accessConfig.nil
    /\ pre.OMIRegions = <<"a">>
    /\ c.OMIRegions = <<"a">>
    /\ errs = <<ErrRegionKey("a")>>

----------------------------------------------------------------------------
\* C6: Prepare changes nothing but the regions list: the name, description,
\* users, groups, encryption flag, default KMS key id, region_kms_key_ids,
\* snapshot users and snapshot groups are after the call what they were
\* before it, and so is the access configuration; an empty regions list is
\* left as it is.
C6_OnlyRegionsChange ==
    [][lastOp' = "Prepare"
            => /\ c'.OMIName = c.OMIName
               /\ c'.OMIDescription = c.OMIDescription
               /\ c'.OMIUsers = c.OMIUsers
               /\ c'.OMIGroups = c.OMIGroups
               /\ c'.OMIEncryptBootVolume = c.OMIEncryptBootVolume
               /\ c'.OMIKmsKeyId = c.OMIKmsKeyId
               /\ c'.OMIRegionKMSKeyIDs = c.OMIRegionKMSKeyIDs
               /\ c'.SnapshotUsers = c.SnapshotUsers
               /\ c'.SnapshotGroups = c.SnapshotGroups
               /\ accessConfig' = accessConfig
               /\ Len(c.OMIRegions) = 0 => c'.OMIRegions = c.OMIRegions]_vars

\* Prepare has returned errors and has changed the regions list
C6_Witness ==
    /\ lastOp = "Prepare"
    /\ prevOp = "none"
    /\ Len(errs) > 0
    /\ c.OMIRegions # pre.OMIRegions
    /\ [c EXCEPT !.OMIRegions = pre.OMIRegions] = pre

----------------------------------------------------------------------------
\* C8 as stated: Prepare called again on the record a Prepare call left
\* leaves the regions list as it is and returns no error the call before did
\* not return.
C8_SecondPrepareHarmless ==
    [][(lastOp = "Prepare" /\ lastOp' = "Prepare")
            => /\ c'.OMIRegions = c.OMIRegions
               /\ NoNewError(errs, errs')]_vars

\* C8 amended: Prepare called again on the record a Prepare call left leaves
\* the regions list as it is, and the only error it can return that the call
\* before did not return is "Region o is in region_kms_key_ids but not in
\* omi_regions" for the region o of the access configuration, when o is a
\* key of region_kms_key_ids.
C8_SecondPrepareOnlyOriginError ==
    [][(lastOp = "Prepare" /\ lastOp' = "Prepare")
            => /\ c'.OMIRegions = c.OMIRegions
               /\ \A e \in Range(errs') \ Range(errs) :
                    /\ ~accessConfig.nil
                    /\ accessConfig.RawRegion \in DOMAIN c.OMIRegionKMSKeyIDs
                    /\ e = ErrKeyRegion(accessConfig.RawRegion)]_vars

\* a second Prepare call has rejected the record for the origin region,
\* which the first call had removed from the list
C8_Witness ==
    /\ lastOp = "Prepare"
    /\ prevOp = "Prepare"
    /\ ~accessConfig.nil
    /\ accessConfig.RawRegion \notin Range(pre.OMIRegions)
    /\ errs = <<ErrKeyRegion(accessConfig.RawRegion)>>

====
